---- MODULE Spec2Model ----
(***************************************************************************)
(* Model of the Ubestream RAG Assistant front end: AppComponent            *)
(* (app.component.ts), its template (app.component.html) and the two       *)
(* requests of ApiService (api.service.ts).                                *)
(*                                                                         *)
(* The browser is single threaded: every action below is one callback run  *)
(* to completion (a DOM event handler, or the next/error callback of an    *)
(* HTTP observable).  Strings the component compares character by          *)
(* character (the question) are sequences of one-character strings; the    *)
(* other strings are opaque.                                               *)
(***************************************************************************)
EXTENDS Integers, Sequences, FiniteSets, TLC

\* ---------------------------------------------------------------- bounds
\* Date.now() returns a value in 0..MaxTime.  It is the wall clock, which
\* can be set back between two reads, so successive values are unordered.
MaxTime == 1
\* Largest number of records the in-memory history grows to by appends.
MaxHistory == 2
\* Largest number of ask requests in flight at once.
MaxPending == 2

\* ------------------------------------------------------- string literals
StatusChecking == "Checking..."
StatusReady    == "Ready"
StatusNotReady == "Not Ready"
StatusError    == "Error"

MsgEnterQuestion == "Please enter a question."
MsgApiNotReady   == "API is not ready."
MsgNoBackend     == "Could not connect to backend API. Please ensure FastAPI server is running on http://localhost:8006."
MsgAskFailed     == "Failed to get answer. Check console for details. Ensure Ollama server is running and models are pulled."
NoAnswerReceived == "No answer received."
NotAvailable     == "N/A"

SortModes == {"time_desc", "time_asc", "alpha_asc", "alpha_desc"}

\* ------------------------------------------------------------- questions
\* Texts the user can have in the textarea (ngModel on #question).
QuestionInputs == { <<>>, <<" ">>, <<"a">> }

WhiteSpace == {" ", "\n", "\t"}

\* String.prototype.trim: strips leading and trailing white space.
RECURSIVE TrimStart(_)
TrimStart(s) ==
    IF s = <<>> THEN <<>>
    ELSE IF Head(s) \in WhiteSpace THEN TrimStart(Tail(s)) ELSE s

RECURSIVE TrimEnd(_)
TrimEnd(s) ==
    IF s = <<>> THEN <<>>
    ELSE IF s[Len(s)] \in WhiteSpace THEN TrimEnd(SubSeq(s, 1, Len(s) - 1)) ELSE s

Trim(s) == TrimEnd(TrimStart(s))

\* Mutant of IsBlank: the test without trim(), !this.question.
IsBlank_NoTrim(q) == q = <<>>

\* The test of sendQuestion's first line: !this.question.trim()
IsBlank(q) == Trim(q) = <<>>


\* ------------------------------------------------------ localStorage blob
(***************************************************************************)
(* The value under the key 'ubestream_rag_history'.  kind is               *)
(*   "absent"  getItem returns null                                        *)
(*   "text"    a string JSON.parse rejects (SyntaxError)                   *)
(*   "object"  JSON text of a value that is no array, e.g. {}              *)
(*   "array"   JSON text of an array; items are its elements               *)
(* An element is JSON null (type "null") or an object with the four fields *)
(* of AnswerHistoryItem (type "object"); its timestamp is a JSON number    *)
(* (t = "num") or a JSON string of digits (t = "str").                     *)
(***************************************************************************)
StorageKey == "ubestream_rag_history"

JNum(n) == [t |-> "num", n |-> n]
JStr(n) == [t |-> "str", n |-> n]

JObject(q, a, i, ts) ==
    [type |-> "object", question |-> q, answer |-> a, inferenceTime |-> i, timestamp |-> ts]

JNull == [type |-> "null", question |-> <<>>, answer |-> "", inferenceTime |-> "", timestamp |-> JNum(0)]

Blob(kind, items) == [kind |-> kind, items |-> items]

Absent == Blob("absent", <<>>)

\* interface AnswerHistoryItem
AnswerHistoryItem(q, a, i, ts) ==
    [question |-> q, answer |-> a, inferenceTime |-> i, timestamp |-> ts]

\* Number(item.timestamp): a number is kept, a string of digits is parsed.
Number(j) == j.n

\* JSON.parse of one array element followed by the forEach body of
\* loadHistoryFromLocalStorage.
ParsedItem(j) == AnswerHistoryItem(j.question, j.answer, j.inferenceTime, Number(j.timestamp))

\* JSON.stringify of one AnswerHistoryItem.
StringifyItem(r) == JObject(r.question, r.answer, r.inferenceTime, JNum(r.timestamp))

\* Mutant of Stringify: only the newest record is written.
Stringify_NewestOnly(h) ==
    Blob("array", IF h = <<>> THEN <<>> ELSE << StringifyItem(h[Len(h)]) >>)

\* JSON.stringify(this.answerHistory)
Stringify(h) == Blob("array", [k \in 1..Len(h) |-> StringifyItem(h[k])])

\* Mutant of loadHistoryFromLocalStorage: the catch block only logs, so what
\* JSON.parse assigned before the exception stays in answerHistory.
loadHistoryFromLocalStorage_NoReset(blob, current) ==
    CASE blob.kind = "absent" -> current
      [] blob.kind = "text"   -> current
      [] blob.kind = "object" -> current
      [] OTHER -> [k \in 1..Len(blob.items) |-> ParsedItem(blob.items[k])]

\* loadHistoryFromLocalStorage: the answerHistory it leaves, given the blob
\* and the answerHistory it started with.  A blob that JSON.parse rejects,
\* that is no array (forEach is not a function) or that holds a null
\* element (item.timestamp throws) ends in the catch block.
loadHistoryFromLocalStorage(blob, current) ==
    CASE blob.kind = "absent" -> current
      [] blob.kind = "text"   -> <<>>
      [] blob.kind = "object" -> <<>>
      [] OTHER ->
            IF \E k \in 1..Len(blob.items) : blob.items[k].type = "null"
            THEN <<>>
            ELSE [k \in 1..Len(blob.items) |-> ParsedItem(blob.items[k])]

\* Mutant of saveHistoryToLocalStorage: called before the push, it writes the
\* history without its last record.
saveHistoryToLocalStorage_BeforePush(blob, h, writeOk) ==
    IF writeOk THEN Stringify(SubSeq(h, 1, Len(h) - 1)) ELSE blob

\* saveHistoryToLocalStorage: the blob it leaves.  setItem throws when the
\* quota is exceeded (writeOk = FALSE); the catch block logs and the blob
\* stays as it was.
saveHistoryToLocalStorage(blob, h, writeOk) ==
    IF writeOk THEN Stringify(h) ELSE blob

\* --------------------------------------------------------------- sorting
CharRank(c) == CASE c = " " -> 0 [] c = "a" -> 1 [] c = "b" -> 2 [] OTHER -> 3

\* String.prototype.localeCompare on the model's alphabet: -1, 0 or 1.
RECURSIVE LocaleCompare(_, _)
LocaleCompare(x, y) ==
    IF x = <<>> /\ y = <<>> THEN 0
    ELSE IF x = <<>> THEN -1
    ELSE IF y = <<>> THEN 1
    ELSE IF CharRank(Head(x)) < CharRank(Head(y)) THEN -1
    ELSE IF CharRank(Head(x)) > CharRank(Head(y)) THEN 1
    ELSE LocaleCompare(Tail(x), Tail(y))

\* Mutant of Compare: 'time_desc' subtracts the wrong way round.
Compare_DescAsAsc(mode, a, b) ==
    CASE mode = "time_desc"  -> a.timestamp - b.timestamp
      [] mode = "time_asc"   -> a.timestamp - b.timestamp
      [] mode = "alpha_asc"  -> LocaleCompare(a.question, b.question)
      [] mode = "alpha_desc" -> LocaleCompare(b.question, a.question)

\* The comparison function of each case of applySortingAndFiltering.
Compare(mode, a, b) ==
    CASE mode = "time_desc"  -> b.timestamp - a.timestamp
      [] mode = "time_asc"   -> a.timestamp - b.timestamp
      [] mode = "alpha_asc"  -> LocaleCompare(a.question, b.question)
      [] mode = "alpha_desc" -> LocaleCompare(b.question, a.question)

\* Array.prototype.sort is stable: x goes after every element that does not
\* compare greater than it.
RECURSIVE SortInsert(_, _, _)
SortInsert(mode, s, x) ==
    IF s = <<>> THEN <<x>>
    ELSE IF Compare(mode, s[Len(s)], x) > 0
         THEN Append(SortInsert(mode, SubSeq(s, 1, Len(s) - 1), x), s[Len(s)])
         ELSE Append(s, x)

RECURSIVE ArraySort(_, _)
ArraySort(mode, s) ==
    IF s = <<>> THEN <<>>
    ELSE SortInsert(mode, ArraySort(mode, SubSeq(s, 1, Len(s) - 1)), s[Len(s)])

\* Mutant of applySortingAndFiltering: the copy is made but never sorted.
applySortingAndFiltering_NoSort(h, mode) == h

\* applySortingAndFiltering: the filteredHistory it leaves.
applySortingAndFiltering(h, mode) == ArraySort(mode, h)


\* ------------------------------------------------------- backend replies
\* a || b on strings: the empty (or missing) string is falsy.
OrElse(v, d) == IF v = "" THEN d ELSE v

\* Bodies GET /status can return: { status, message? }.
StatusResponses ==
    { [status |-> "ready",   message |-> ""],
      [status |-> "loading", message |-> ""],
      [status |-> "loading", message |-> "Models are loading."] }

\* Bodies POST /ask can return: { answer, inference_time }.
AskResponses ==
    { [answer |-> "Ubestream offers AI services.", inference_time |-> "1.2s"],
      [answer |-> "", inference_time |-> ""] }

\* Blobs found under the key when the page is first opened: nothing, blobs
\* the load cannot use, and a history written with timestamps as strings.
InitialBlobs ==
    { Absent,
      Blob("text", <<>>),
      Blob("object", <<>>),
      Blob("array", <<JObject(<<"b">>, "Ubestream offers AI services.", "1.2s", JNum(0)), JNull>>),
      Blob("array", <<JObject(<<"b">>, "Ubestream offers AI services.", "1.2s", JStr(0))>>) }

\* ----------------------------------------------------------------- state
VARIABLES
    question,         \* AppComponent.question, bound to the textarea
    answer,           \* AppComponent.answer
    inferenceTime,    \* AppComponent.inferenceTime
    isLoading,        \* AppComponent.isLoading
    apiStatus,        \* AppComponent.apiStatus
    errorMessage,     \* AppComponent.errorMessage
    answerHistory,    \* AppComponent.answerHistory
    filteredHistory,  \* AppComponent.filteredHistory
    currentSort,      \* AppComponent.currentSort
    storage,          \* localStorage['ubestream_rag_history']
    statusPending,    \* the checkStatus request is in flight
    askPending,       \* currentQuestion of each askQuestion request in flight
    pc,               \* "constructed" before ngOnInit, "running" after
    event,            \* history: the callback that ran last, and its input
    stale             \* history: the last setItem threw, and the key was
                      \* neither written, removed nor loaded since

vars == << question, answer, inferenceTime, isLoading, apiStatus, errorMessage,
           answerHistory, filteredHistory, currentSort, storage, statusPending,
           askPending, pc, event, stale >>

Event(name, arg) == [name |-> name, arg |-> arg]

\* Field initialisers of AppComponent (lines 26-38); the page is opened on
\* whatever an earlier visit left in localStorage.
Init ==
    /\ question = <<>>
    /\ answer = ""
    /\ inferenceTime = ""
    /\ isLoading = FALSE
    /\ apiStatus = StatusChecking
    /\ errorMessage = ""
    /\ answerHistory = <<>>
    /\ filteredHistory = <<>>
    /\ currentSort = "time_desc"
    /\ storage \in InitialBlobs
    /\ statusPending = FALSE
    /\ askPending = <<>>
    /\ pc = "constructed"
    /\ event = Event("construct", "")
    /\ stale = FALSE

\* ------------------------------------------------------------- callbacks
\* ngOnInit on a freshly constructed component: checkApiStatus() issues the
\* status request, then the history is loaded and sorted.
OnInitEffect ==
    /\ apiStatus' = StatusChecking
    /\ statusPending' = TRUE
    /\ answerHistory' = loadHistoryFromLocalStorage(storage, <<>>)
    /\ filteredHistory' = applySortingAndFiltering(answerHistory', "time_desc")
    /\ question' = <<>>
    /\ answer' = ""
    /\ inferenceTime' = ""
    /\ isLoading' = FALSE
    /\ errorMessage' = ""
    /\ currentSort' = "time_desc"
    /\ askPending' = <<>>
    /\ pc' = "running"
    /\ stale' = FALSE
    /\ UNCHANGED storage

ngOnInit ==
    /\ pc = "constructed"
    /\ OnInitEffect
    /\ event' = Event("ngOnInit", "")

\* The user reloads the page: the component and its requests are gone, a new
\* component is constructed and initialised; localStorage stays.
Reload ==
    /\ pc = "running"
    /\ OnInitEffect
    /\ event' = Event("reload", "")

\* [(ngModel)]="question": the user edits the textarea.
TypeQuestion ==
    /\ pc = "running"
    /\ \E q \in QuestionInputs :
         /\ q # question
         /\ question' = q
    /\ event' = Event("type", "")
    /\ UNCHANGED << answer, inferenceTime, isLoading, apiStatus, errorMessage,
                    answerHistory, filteredHistory, currentSort, storage,
                    statusPending, askPending, pc, stale >>

\* Mutant of sendQuestion: the loading flag is raised before the blank check.
sendQuestion_LoadingFirst ==
    IF IsBlank(question)
    THEN /\ errorMessage' = MsgEnterQuestion
         /\ isLoading' = TRUE
         /\ UNCHANGED << answer, inferenceTime, askPending >>
    ELSE /\ Len(askPending) < MaxPending
         /\ isLoading' = TRUE
         /\ answer' = ""
         /\ inferenceTime' = ""
         /\ errorMessage' = ""
         /\ askPending' = Append(askPending, question)

\* sendQuestion(), up to the subscribe call.
sendQuestion ==
    IF IsBlank(question)
    THEN /\ errorMessage' = MsgEnterQuestion
         /\ UNCHANGED << isLoading, answer, inferenceTime, askPending >>
    ELSE /\ Len(askPending) < MaxPending
         /\ isLoading' = TRUE
         /\ answer' = ""
         /\ inferenceTime' = ""
         /\ errorMessage' = ""
         /\ askPending' = Append(askPending, question)

\* <button (click)="sendQuestion()" [disabled]="isLoading || apiStatus !== 'Ready'">
ButtonDisabled == isLoading \/ apiStatus # StatusReady

ClickSend ==
    /\ pc = "running"
    /\ ~ButtonDisabled
    /\ sendQuestion
    /\ event' = Event("click", "")
    /\ UNCHANGED << question, apiStatus, answerHistory, filteredHistory, currentSort,
                    storage, statusPending, pc, stale >>

\* <textarea (keyup.enter)="sendQuestion()">
EnterKey ==
    /\ pc = "running"
    /\ sendQuestion
    /\ event' = Event("enter", "")
    /\ UNCHANGED << question, apiStatus, answerHistory, filteredHistory, currentSort,
                    storage, statusPending, pc, stale >>


\* s without its i-th element.
RemoveAt(s, i) == [k \in 1..(Len(s) - 1) |-> IF k < i THEN s[k] ELSE s[k + 1]]

\* Mutant of AskNextEffect: the record takes this.question, the input as it
\* is when the response arrives, instead of currentQuestion.
AskNextEffect_LiveInput(i, resp, t, writeOk) ==
    /\ answer' = OrElse(resp.answer, NoAnswerReceived)
    /\ inferenceTime' = OrElse(resp.inference_time, NotAvailable)
    /\ isLoading' = FALSE
    /\ answerHistory' = Append(answerHistory,
                               AnswerHistoryItem(question, answer', inferenceTime', t))
    /\ storage' = saveHistoryToLocalStorage(storage, answerHistory', writeOk)
    /\ filteredHistory' = applySortingAndFiltering(answerHistory', currentSort)
    /\ question' = <<>>
    /\ askPending' = RemoveAt(askPending, i)

\* next callback of askQuestion(currentQuestion).subscribe: the i-th request
\* in flight completes with body resp; Date.now() returns t; setItem succeeds
\* or throws (writeOk).
AskNextEffect(i, resp, t, writeOk) ==
    /\ answer' = OrElse(resp.answer, NoAnswerReceived)
    /\ inferenceTime' = OrElse(resp.inference_time, NotAvailable)
    /\ isLoading' = FALSE
    /\ answerHistory' = Append(answerHistory,
                               AnswerHistoryItem(askPending[i], answer', inferenceTime', t))
    /\ storage' = saveHistoryToLocalStorage(storage, answerHistory', writeOk)
    /\ filteredHistory' = applySortingAndFiltering(answerHistory', currentSort)
    /\ question' = <<>>
    /\ askPending' = RemoveAt(askPending, i)

AskNext ==
    /\ pc = "running"
    /\ Len(answerHistory) < MaxHistory
    /\ \E i \in 1..Len(askPending), resp \in AskResponses, t \in 0..MaxTime, writeOk \in BOOLEAN :
         /\ AskNextEffect(i, resp, t, writeOk)
         /\ stale' = ~writeOk
         /\ event' = Event("askNext", resp.answer)
    /\ UNCHANGED << apiStatus, errorMessage, currentSort, statusPending, pc >>

\* error callback of askQuestion(currentQuestion).subscribe.
\* Mutant of AskErrorEffect: isLoading is not reset.
AskErrorEffect_StillLoading ==
    /\ errorMessage' = MsgAskFailed
    /\ UNCHANGED isLoading

\* The statements of the error callback.
AskErrorEffect ==
    /\ errorMessage' = MsgAskFailed
    /\ isLoading' = FALSE

AskError ==
    /\ pc = "running"
    /\ \E i \in 1..Len(askPending) : askPending' = RemoveAt(askPending, i)
    /\ AskErrorEffect
    /\ event' = Event("askError", "")
    /\ UNCHANGED << question, answer, inferenceTime, apiStatus, answerHistory,
                    filteredHistory, currentSort, storage, statusPending, pc, stale >>

\* Mutant of StatusNextEffect: every response counts as ready.
StatusNextEffect_AlwaysReady(resp) ==
    /\ apiStatus' = StatusReady
    /\ errorMessage' = ""

\* next callback of checkStatus().subscribe.
StatusNextEffect(resp) ==
    /\ apiStatus' = IF resp.status = "ready" THEN StatusReady ELSE StatusNotReady
    /\ errorMessage' = IF resp.status # "ready"
                       THEN OrElse(resp.message, MsgApiNotReady)
                       ELSE ""

StatusNext ==
    /\ pc = "running"
    /\ statusPending
    /\ statusPending' = FALSE
    /\ \E resp \in StatusResponses :
         /\ StatusNextEffect(resp)
         /\ event' = Event("statusNext", resp.status)
    /\ UNCHANGED << question, answer, inferenceTime, isLoading, answerHistory,
                    filteredHistory, currentSort, storage, askPending, pc, stale >>

\* error callback of checkStatus().subscribe.
StatusErrorEffect ==
    /\ apiStatus' = StatusError
    /\ errorMessage' = MsgNoBackend

StatusFailed ==
    /\ pc = "running"
    /\ statusPending
    /\ statusPending' = FALSE
    /\ StatusErrorEffect
    /\ event' = Event("statusError", "")
    /\ UNCHANGED << question, answer, inferenceTime, isLoading, answerHistory,
                    filteredHistory, currentSort, storage, askPending, pc, stale >>

\* Mutant of ClearEffect: removeItem is left out.
ClearEffect_NoRemoveItem(accepted) ==
    IF accepted
    THEN /\ answerHistory' = <<>>
         /\ filteredHistory' = <<>>
         /\ stale' = FALSE
         /\ UNCHANGED storage
    ELSE UNCHANGED << answerHistory, filteredHistory, storage, stale >>

\* Mutant of ClearEffect: the history is cleared without looking at what
\* confirm() returned.
ClearEffect_NoConfirm(accepted) ==
    /\ answerHistory' = <<>>
    /\ filteredHistory' = <<>>
    /\ storage' = Absent
    /\ stale' = FALSE

\* clearHistory(): confirm() returns accepted.
ClearEffect(accepted) ==
    IF accepted
    THEN /\ answerHistory' = <<>>
         /\ filteredHistory' = <<>>
         /\ storage' = Absent
         /\ stale' = FALSE
    ELSE UNCHANGED << answerHistory, filteredHistory, storage, stale >>

clearHistory ==
    /\ pc = "running"
    /\ \E accepted \in BOOLEAN :
         /\ ClearEffect(accepted)
         /\ event' = Event("clearHistory", IF accepted THEN "accepted" ELSE "declined")
    /\ UNCHANGED << question, answer, inferenceTime, isLoading, apiStatus, errorMessage,
                    currentSort, statusPending, askPending, pc >>

\* Mutant of ChangeSort: the sorted list is also written to localStorage.
ChangeSort_Persists ==
    /\ pc = "running"
    /\ \E mode \in SortModes \ {currentSort} :
         /\ currentSort' = mode
         /\ filteredHistory' = applySortingAndFiltering(answerHistory, mode)
         /\ storage' = Stringify(filteredHistory')
    /\ stale' = FALSE
    /\ event' = Event("change", "")
    /\ UNCHANGED << question, answer, inferenceTime, isLoading, apiStatus, errorMessage,
                    answerHistory, statusPending, askPending, pc >>

\* Mutant of ChangeSort: the array is sorted in place, without the copy.
ChangeSort_InPlace ==
    /\ pc = "running"
    /\ \E mode \in SortModes \ {currentSort} :
         /\ currentSort' = mode
         /\ answerHistory' = applySortingAndFiltering(answerHistory, mode)
         /\ filteredHistory' = answerHistory'
    /\ event' = Event("change", "")
    /\ UNCHANGED << question, answer, inferenceTime, isLoading, apiStatus, errorMessage,
                    storage, statusPending, askPending, pc, stale >>

\* <select [(ngModel)]="currentSort" (change)="applySortingAndFiltering()">
ChangeSort ==
    /\ pc = "running"
    /\ \E mode \in SortModes \ {currentSort} :
         /\ currentSort' = mode
         /\ filteredHistory' = applySortingAndFiltering(answerHistory, mode)
    /\ event' = Event("change", "")
    /\ UNCHANGED << question, answer, inferenceTime, isLoading, apiStatus, errorMessage,
                    answerHistory, storage, statusPending, askPending, pc, stale >>

Next ==
    \/ ngOnInit
    \/ Reload
    \/ TypeQuestion
    \/ ClickSend
    \/ EnterKey
    \/ AskNext
    \/ AskError
    \/ StatusNext
    \/ StatusFailed
    \/ clearHistory
    \/ ChangeSort

Spec == Init /\ [][Next]_vars


\* The status request completes whenever it is in flight: HttpClient ends
\* every request with a response or an error.
LiveSpec == Spec /\ WF_vars(StatusNext \/ StatusFailed)

\* Every askQuestion request completes: HttpClient delivers next or error
\* to the subscriber of sendQuestion.
LiveAskSpec == Spec /\ WF_vars(AskNext \/ AskError)

\* ================================================================ claims
\* A submission event: the button was clicked or Enter was released in the
\* textarea, and the handler has run.
SubmissionStep == event'.name \in {"click", "enter"}

\* s is empty or holds white space only.
OnlyWhiteSpace(s) == \A k \in 1..Len(s) : s[k] \in WhiteSpace

\* The records a reload would read from the key (an absent key and a blob
\* the load rejects count as no records).
Persisted == loadHistoryFromLocalStorage(storage, <<>>)

\* r occurs in s.
Member(r, s) == \E k \in 1..Len(s) : s[k] = r

\* C1: while apiStatus is not 'Ready', no submission event (click or Enter)
\* issues an askQuestion request or turns isLoading on.
C1_NoSubmissionUnlessReady ==
    [][ (SubmissionStep /\ apiStatus # StatusReady)
            => (askPending' = askPending /\ ~(~isLoading /\ isLoading')) ]_vars

\* C2: at most one askQuestion request is in flight in every reachable
\* state: a submission event while isLoading issues no second request.
C2_AtMostOneAskInFlight == Len(askPending) <= 1

\* C3: a submission with an empty or white-space-only question issues no
\* request, sets a non-empty errorMessage and leaves isLoading, answer,
\* inferenceTime, answerHistory, filteredHistory and storage unchanged.
C3_BlankSubmissionRejected ==
    [][ (SubmissionStep /\ OnlyWhiteSpace(question))
            => /\ askPending' = askPending
               /\ errorMessage' # ""
               /\ UNCHANGED << isLoading, answer, inferenceTime, answerHistory,
                               filteredHistory, storage >> ]_vars

\* C3 witness: Enter was pressed on a question of one space while an earlier
\* request was in flight; the validation message is shown.
C3_Witness ==
    /\ event.name = "enter"
    /\ question = <<" ">>
    /\ errorMessage = MsgEnterQuestion
    /\ isLoading
    /\ askPending # <<>>

\* C4 as claimed: between callbacks, once the history was loaded, the blob
\* under the key decodes to exactly the records of answerHistory, also after
\* a storage write failed.
C4_PersistedEqualsMemory == pc = "running" => Persisted = answerHistory

\* C4 amended: between callbacks, once the history was loaded, the blob under
\* the key decodes to exactly the records of answerHistory (an absent key and
\* a blob the load rejects count as no records) unless the last setItem
\* threw and the key was neither written, removed nor loaded since.
C4_PersistedEqualsMemoryUnlessWriteFailed ==
    (pc = "running" /\ ~stale) => Persisted = answerHistory

\* C4 witness: the load read a record stored with its timestamp as a string
\* and a submission was answered and saved after it.
C4_Witness ==
    /\ event.name = "askNext"
    /\ answerHistory[1].question = <<"b">>
    /\ ~stale
    /\ Len(answerHistory) = 2
    /\ storage.kind = "array"

\* C5: after successful submissions that each appended and saved, a reload
\* yields the records answerHistory held before it, in the same order.
C5_ReloadRoundTrip ==
    [][ (event'.name = "reload" /\ ~stale) => answerHistory' = answerHistory ]_vars

\* C5 witness: two saved records, the newer first, were read back by a
\* reload (the load keeps the stored order).
C5_Witness ==
    /\ event.name = "reload"
    /\ Len(answerHistory) = 2
    /\ answerHistory[1].timestamp > answerHistory[2].timestamp
    /\ answerHistory[1].answer = NoAnswerReceived

\* C6: right after an accepted clearHistory, answerHistory and
\* filteredHistory are empty and the key holds no records; a reload that
\* follows starts with both empty.
C6_ClearEmptiesMemoryAndStorage ==
    [][ /\ (event'.name = "clearHistory" /\ event'.arg = "accepted")
            => (answerHistory' = <<>> /\ filteredHistory' = <<>> /\ storage' = Absent)
        /\ (event.name = "clearHistory" /\ event.arg = "accepted" /\ event'.name = "reload")
            => (answerHistory' = <<>> /\ filteredHistory' = <<>>) ]_vars

\* C6 witness: the history was cleared after a submission had been answered
\* in this session.
C6_Witness ==
    /\ event = Event("clearHistory", "accepted")
    /\ answer # ""
    /\ answerHistory = <<>>
    /\ storage = Absent

\* The timestamps of s never increase from one element to the next.
NonIncreasingTimestamps(s) ==
    \A k \in 1..(Len(s) - 1) : s[k].timestamp >= s[k + 1].timestamp

\* A callback that ends in applySortingAndFiltering() has run.
SortingStep == event'.name \in {"ngOnInit", "reload", "change", "askNext"}

\* C7: with currentSort = 'time_desc', applySortingAndFiltering leaves a
\* filteredHistory whose timestamps are non-increasing.
C7_NewestFirstIsNonIncreasing ==
    [][ (SortingStep /\ currentSort' = "time_desc")
            => NonIncreasingTimestamps(filteredHistory') ]_vars

\* C7 witness: a history kept oldest first is shown newest first.
C7_Witness ==
    /\ event.name = "change"
    /\ currentSort = "time_desc"
    /\ Len(answerHistory) = 2
    /\ answerHistory[1].timestamp < answerHistory[2].timestamp
    /\ filteredHistory = << answerHistory[2], answerHistory[1] >>

\* C8: the error callback of an ask request sets isLoading to false and a
\* non-empty errorMessage, and leaves answerHistory, filteredHistory and
\* storage unchanged.
C8_AskFailureCreatesNoRecord ==
    [][ event'.name = "askError"
            => /\ ~isLoading'
               /\ errorMessage' # ""
               /\ UNCHANGED << answerHistory, filteredHistory, storage >> ]_vars

\* C8 witness: a request failed while the component was loading and held a
\* record.
C8_Witness ==
    /\ event.name = "askError"
    /\ ~isLoading
    /\ errorMessage = MsgAskFailed
    /\ answerHistory # <<>>
    /\ askPending = <<>>


\* An ask request has completed with a response, and the callback has run.
AskNextStep == event'.name = "askNext"

\* The last record of answerHistory after the step.
Appended == answerHistory'[Len(answerHistory')]

\* What C9 says of every success callback apart from storage: isLoading is
\* off, answer is the response's answer or the default text, one record is
\* appended, it carries the question of the completed request, the displayed
\* answer and inferenceTime, and filteredHistory shows it.
AskSuccessInMemory ==
    /\ ~isLoading'
    /\ answer' # ""
    /\ answer' = (IF event'.arg = "" THEN NoAnswerReceived ELSE event'.arg)
    /\ Len(answerHistory') = Len(answerHistory) + 1
    /\ SubSeq(answerHistory', 1, Len(answerHistory)) = answerHistory
    /\ \E i \in 1..Len(askPending) :
         /\ Appended.question = askPending[i]
         /\ askPending' = RemoveAt(askPending, i)
    /\ Appended.answer = answer'
    /\ Appended.inferenceTime = inferenceTime'
    /\ Member(Appended, filteredHistory')

\* A request carries the text the input held when it was submitted.
RequestCarriesInput ==
    (SubmissionStep /\ askPending' # askPending) => askPending' = Append(askPending, question)

\* C9 as claimed: on success isLoading is off, answer is non-empty, exactly
\* one record is appended with the submitted question and the displayed
\* answer and inferenceTime, and the record is in storage and in
\* filteredHistory.
C9_AskSuccessAppendsAndPersists ==
    [][ /\ RequestCarriesInput
        /\ AskNextStep => (AskSuccessInMemory /\ Member(Appended, Persisted')) ]_vars

\* C9 amended: as claimed, except that the record is in storage only when
\* setItem did not throw; when it throws, storage is left as it was.
C9_AskSuccessAppendsAndPersistsIfWritten ==
    [][ /\ RequestCarriesInput
        /\ AskNextStep =>
             /\ AskSuccessInMemory
             /\ ~stale' => (Member(Appended, Persisted') /\ Persisted' = answerHistory')
             /\ stale' => storage' = storage ]_vars

\* C9 witness: a response without an answer arrived for a request whose
\* question the user had since replaced by a space typed over it; a second
\* record was appended and saved, and another request is still in flight.
C9_Witness ==
    /\ event = Event("askNext", "")
    /\ answer = NoAnswerReceived
    /\ inferenceTime = NotAvailable
    /\ ~stale
    /\ Len(answerHistory) = 2
    /\ answerHistory[2].question = <<"a">>
    /\ askPending # <<>>

\* Backend states the status check resolves to.
Resolved == {StatusReady, StatusNotReady, StatusError}

\* C10: after ngOnInit apiStatus is 'Checking...'; if the status request
\* completes, apiStatus becomes 'Ready' for a 'ready' response, 'Not Ready'
\* for any other response and 'Error' for a failure; once resolved it is not
\* 'Checking...' again in the same session.
C10_StatusResolvesOnce ==
    /\ [](statusPending => apiStatus = StatusChecking)
    /\ (statusPending ~> apiStatus \in Resolved)
    /\ [][ /\ event'.name \in {"ngOnInit", "reload"} => (apiStatus' = StatusChecking /\ statusPending')
           /\ event'.name = "statusNext" =>
                apiStatus' = (IF event'.arg = "ready" THEN StatusReady ELSE StatusNotReady)
           /\ event'.name = "statusError" => apiStatus' = StatusError
           /\ (apiStatus \in Resolved /\ event'.name # "reload") => apiStatus' \in Resolved ]_vars

\* C10 witness: the check resolved to 'Not Ready' and a later request of the
\* same session failed.
C10_Witness ==
    /\ apiStatus = StatusNotReady
    /\ ~statusPending
    /\ event.name = "askError"

\* Messages a failed status check, a non-ready status response or a failed
\* ask request leaves in errorMessage.
FailureMessages ==
    {MsgNoBackend, MsgAskFailed}
        \cup { OrElse(r.message, MsgApiNotReady) : r \in {x \in StatusResponses : x.status # "ready"} }

\* A status or ask failure has been handled by the step.
FailureHandledStep ==
    \/ event'.name \in {"statusError", "askError"}
    \/ event'.name = "statusNext" /\ event'.arg # "ready"

\* A submission event on a question that is not blank.
NonBlankSubmissionStep == SubmissionStep /\ ~OnlyWhiteSpace(question)

\* C11: a handled status failure, non-ready status response or ask failure
\* leaves errorMessage non-empty, and a failure message on display is not
\* emptied by any callback of the session other than a non-blank submission;
\* the completion of the other network call does not erase it.
C11_FailureMessageStays ==
    [][ /\ FailureHandledStep => errorMessage' # ""
        /\ (errorMessage \in FailureMessages /\ ~NonBlankSubmissionStep /\ event'.name # "reload")
              => errorMessage' # "" ]_vars

\* ------------------------------------------ completion handlers as functions
\* The controller's fields and the key, as one record.
Controller ==
    [ question |-> question, answer |-> answer, inferenceTime |-> inferenceTime,
      isLoading |-> isLoading, apiStatus |-> apiStatus, errorMessage |-> errorMessage,
      answerHistory |-> answerHistory, filteredHistory |-> filteredHistory,
      currentSort |-> currentSort, storage |-> storage ]

\* next callback of checkStatus().subscribe, applied to the fields f.
OnStatusNext(f, resp) ==
    [f EXCEPT !.apiStatus = IF resp.status = "ready" THEN StatusReady ELSE StatusNotReady,
              !.errorMessage = IF resp.status # "ready"
                               THEN OrElse(resp.message, MsgApiNotReady)
                               ELSE ""]

\* error callback of checkStatus().subscribe, applied to the fields f.
OnStatusError(f) ==
    [f EXCEPT !.apiStatus = StatusError, !.errorMessage = MsgNoBackend]

\* next callback of askQuestion(q).subscribe, applied to the fields f.
OnAskNext(f, q, resp, t, writeOk) ==
    LET a == OrElse(resp.answer, NoAnswerReceived)
        i == OrElse(resp.inference_time, NotAvailable)
        h == Append(f.answerHistory, AnswerHistoryItem(q, a, i, t))
    IN  [f EXCEPT !.answer = a,
                  !.inferenceTime = i,
                  !.isLoading = FALSE,
                  !.answerHistory = h,
                  !.storage = saveHistoryToLocalStorage(f.storage, h, writeOk),
                  !.filteredHistory = applySortingAndFiltering(h, f.currentSort),
                  !.question = <<>>]

\* error callback of askQuestion(q).subscribe, applied to the fields f.
OnAskError(f) ==
    [f EXCEPT !.errorMessage = MsgAskFailed, !.isLoading = FALSE]

\* Outcomes of the two requests: a response body, or a failure.
StatusOutcomes == [ok : BOOLEAN, resp : StatusResponses]
AskOutcomes == [ok : BOOLEAN, resp : AskResponses, t : 0..MaxTime, writeOk : BOOLEAN]

StatusDone(f, o) == IF o.ok THEN OnStatusNext(f, o.resp) ELSE OnStatusError(f)
AskDone(f, q, o) == IF o.ok THEN OnAskNext(f, q, o.resp, o.t, o.writeOk) ELSE OnAskError(f)

\* The four functions are the four completion actions: every completion
\* step changes the fields as its function says.
HandlersAsFunctions ==
    [][ /\ event'.name = "statusNext" =>
              \E r \in StatusResponses : Controller' = OnStatusNext(Controller, r)
        /\ event'.name = "statusError" => Controller' = OnStatusError(Controller)
        /\ event'.name = "askNext" =>
              \E k \in 1..Len(askPending), o \in AskOutcomes :
                  Controller' = OnAskNext(Controller, askPending[k], o.resp, o.t, o.writeOk)
        /\ event'.name = "askError" => Controller' = OnAskError(Controller) ]_vars

\* f and g agree on every field other than apiStatus and answer.
SameButStatusAndAnswer(f, g) ==
    \A k \in (DOMAIN f) \ {"apiStatus", "answer"} : f[k] = g[k]

\* C12: with a status check and an ask request both in flight, for every
\* pair of outcomes the two completions leave the same value in every field
\* other than apiStatus and answer, whichever is handled first.
C12_CompletionsCommute ==
    (pc = "running" /\ statusPending /\ askPending # <<>>) =>
        \A s \in StatusOutcomes, a \in AskOutcomes, k \in 1..Len(askPending) :
            SameButStatusAndAnswer(
                AskDone(StatusDone(Controller, s), askPending[k], a),
                StatusDone(AskDone(Controller, askPending[k], a), s))

\* C13: after startup, answerHistory changes only by one record appended in
\* the ask success callback or by becoming empty in an accepted
\* clearHistory; every other callback leaves the records and their order
\* as they were.
C13_HistoryChangesOnlyByAppendOrClear ==
    [][ event'.name \notin {"ngOnInit", "reload"} =>
          CASE event'.name = "askNext" ->
                 /\ Len(answerHistory') = Len(answerHistory) + 1
                 /\ SubSeq(answerHistory', 1, Len(answerHistory)) = answerHistory
            [] event' = Event("clearHistory", "accepted") -> answerHistory' = <<>>
            [] OTHER -> answerHistory' = answerHistory ]_vars

\* C13 witness: the sort order was changed on a history of two records and
\* the list on display is in another order than the records are kept.
C13_Witness ==
    /\ event.name = "change"
    /\ Len(answerHistory) = 2
    /\ filteredHistory # answerHistory
    /\ answerHistory[1].question = <<"b">>

\* A blob the load cannot use: JSON.parse rejects it, or what it parses to
\* makes the forEach of loadHistoryFromLocalStorage throw.
Corrupted(blob) ==
    \/ blob.kind \in {"text", "object"}
    \/ blob.kind = "array" /\ \E k \in 1..Len(blob.items) : blob.items[k].type = "null"

StartupStep == event'.name \in {"ngOnInit", "reload"}

\* C14: a blob that cannot be loaded at startup is discarded: answerHistory
\* and filteredHistory start empty and no errorMessage is set.  While the
\* blob is still under the key the controller works as usual: sort changes,
\* clears and submissions are accepted, a non-blank submission issues its
\* request, a saved answer replaces the blob with the history in memory, an
\* accepted clear removes it and a sort change shows the sorted history.
C14_CorruptedHistoryDiscarded ==
    /\ []((pc = "running" /\ Corrupted(storage)) =>
            /\ ENABLED ChangeSort
            /\ ENABLED clearHistory
            /\ Len(askPending) < MaxPending => ENABLED EnterKey)
    /\ [][ Corrupted(storage) =>
             /\ StartupStep =>
                  /\ answerHistory' = <<>>
                  /\ filteredHistory' = <<>>
                  /\ errorMessage' = ""
             /\ NonBlankSubmissionStep =>
                  /\ askPending' = Append(askPending, question)
                  /\ isLoading'
             /\ (event'.name = "askNext" /\ ~stale') =>
                  /\ ~Corrupted(storage')
                  /\ Persisted' = answerHistory'
                  /\ Len(answerHistory') = Len(answerHistory) + 1
             /\ event' = Event("clearHistory", "accepted") =>
                  /\ storage' = Absent
                  /\ answerHistory' = <<>>
             /\ event'.name = "change" =>
                  /\ filteredHistory' = applySortingAndFiltering(answerHistory, currentSort')
                  /\ storage' = storage ]_vars

\* C14 witness: the page was opened on an array with a null element, nothing
\* was loaded, no message is shown and a sort change has been accepted.
C14_Witness ==
    /\ pc = "running"
    /\ storage.kind = "array"
    /\ Corrupted(storage)
    /\ event.name = "change"
    /\ answerHistory = <<>>
    /\ errorMessage = ""

\* C15: under LiveAskSpec, where every issued ask request completes, a
\* raised isLoading is eventually lowered again, and isLoading goes from
\* false to true only in a submission that passed the blank check and
\* issued a request.
C15_LoadingReturnsToIdle ==
    /\ isLoading ~> ~isLoading
    /\ [][ (~isLoading /\ isLoading') =>
             /\ NonBlankSubmissionStep
             /\ askPending' = Append(askPending, question) ]_vars

\* C15 witness: a submission was accepted, its request has failed and the
\* controller is idle again with no request in flight.
C15_Witness ==
    /\ event.name = "askError"
    /\ ~isLoading
    /\ askPending = <<>>
    /\ errorMessage = MsgAskFailed

\* C16: when the confirmation prompt of clearHistory is declined, every
\* field of the controller, the blob in localStorage and the requests in
\* flight are as they were before the click.
C16_DeclinedClearChangesNothing ==
    [][ event' = Event("clearHistory", "declined") =>
          /\ Controller' = Controller
          /\ UNCHANGED << answerHistory, filteredHistory, storage,
                          statusPending, askPending >> ]_vars

\* C16 witness: the prompt was declined on a history of two records that is
\* also in localStorage.
C16_Witness ==
    /\ event = Event("clearHistory", "declined")
    /\ Len(answerHistory) = 2
    /\ Len(filteredHistory) = 2
    /\ storage.kind = "array"

\* C17: a change of the sort order recomputes filteredHistory from
\* answerHistory for the chosen mode and touches nothing else:
\* answerHistory keeps its records in insertion order, and localStorage,
\* question, answer, inferenceTime, isLoading, apiStatus and errorMessage
\* are unchanged.
C17_RecomputeTouchesOnlyTheView ==
    [][ event'.name = "change" =>
          /\ currentSort' \in SortModes
          /\ filteredHistory' = applySortingAndFiltering(answerHistory, currentSort')
          /\ UNCHANGED << answerHistory, storage, question, answer, inferenceTime,
                          isLoading, apiStatus, errorMessage >> ]_vars

\* C17 witness: the list was recomputed in alphabetical order, which is not
\* the insertion order of the two records kept in memory and in storage.
C17_Witness ==
    /\ event.name = "change"
    /\ currentSort = "alpha_asc"
    /\ Len(answerHistory) = 2
    /\ filteredHistory # answerHistory
    /\ Persisted = answerHistory

\* The number of positions of s that hold r.
Count(r, s) == Cardinality({k \in 1..Len(s) : s[k] = r})

\* s and t hold the same records, each as many times.
IsPermutation(s, t) ==
    /\ Len(s) = Len(t)
    /\ \A k \in 1..Len(s) : Count(s[k], s) = Count(s[k], t)

\* s is in the order the mode asks for.
OrderedBy(mode, s) ==
    \A i, j \in 1..Len(s) :
        i < j =>
            CASE mode = "time_desc"  -> s[i].timestamp >= s[j].timestamp
              [] mode = "time_asc"   -> s[i].timestamp <= s[j].timestamp
              [] mode = "alpha_asc"  -> LocaleCompare(s[i].question, s[j].question) <= 0
              [] mode = "alpha_desc" -> LocaleCompare(s[i].question, s[j].question) >= 0

\* C18: between callbacks, once the component is initialised,
\* filteredHistory holds exactly the records of answerHistory, each as many
\* times, in the order of currentSort: timestamps non-increasing for
\* time_desc and non-decreasing for time_asc, questions non-decreasing for
\* alpha_asc and non-increasing for alpha_desc.
C18_ViewInSyncWithStore ==
    pc = "running" =>
        /\ IsPermutation(filteredHistory, answerHistory)
        /\ OrderedBy(currentSort, filteredHistory)

\* C18 witness: an answer arrived while the list was shown oldest first; the
\* list holds both records in an order that is not the insertion order.
C18_Witness ==
    /\ event.name = "askNext"
    /\ currentSort = "time_asc"
    /\ Len(filteredHistory) = 2
    /\ filteredHistory # answerHistory

\* C19: between callbacks, once the component is initialised, isLoading is
\* true exactly when at least one askQuestion request is in flight.
C19_LoadingIffRequestInFlight ==
    pc = "running" => (isLoading <=> askPending # <<>>)

====
